---- MODULE Spec2Model ----
(***************************************************************************)
(* gateway-proxy: the per-client session (handle_client, its sink_task and *)
(* forward_shard) and the per-shard event ingest (dispatch_events).        *)
(*                                                                         *)
(* Tasks run on a thread pool, so every channel operation of one task may  *)
(* interleave with the other tasks: each action below is one step of one   *)
(* task between two such operations.                                       *)
(*                                                                         *)
(* JSON values: "s": null is NoSeq; the body "d" is kept as a set of       *)
(* integers (the guild ids of a READY, the id of a guild frame, the        *)
(* content of an event).                                                   *)
(***************************************************************************)
EXTENDS Integers, Sequences, FiniteSets, TLC

\* ---- bounds of the model ----
\* Four kinds of run are explored, each bounding the frames the client sends
\* and the payloads (and their types) shard 0 receives; see Limits.
MaxFrames == 3
MidFrames == 2
MinFrames == 1
MinUpstream == 1
LowUpstream == 2
MidUpstream == 3
MaxUpstream == 4
IdleUpstream == 0
MaxGuild == 2
PairFrames == 1
PairUpstream == 3
\* state.shard_count and the capacity of the events broadcast (configuration)
ShardCount == 2
Backpressure == 1

Clients == {"c1", "c2"}
Shards == 0 .. (ShardCount - 1)
Guilds == 1 .. MaxGuild
None == -1
NoSeq == -1
\* upstream sequence numbers start far from the per-client ones
UpstreamBase == 100
\* the part of a READY body that is not its guild list
ReadyBase == 1000
ConfigToken == "secret"
Tokens == {"secret", "wrong"}
OptBool == {"None", "true", "false"}
\* opcodes other than 1, 2, 6 a client may send (3 presence, 4 voice state, 8 members)
OtherOps == {3, 8}

VARIABLES
    handle_client,   \* [client -> "absent" | "hello" | "read" | "returned"]
    frames_in,       \* [client -> number of frames read from the client so far]
    shard_status,    \* [client -> None | shard], the Option of server.rs:136
    compress_tx,     \* [client -> BOOLEAN], TRUE while the Option holds the sender
    compress_rx,     \* [client -> "pending" | "None" | "true" | "false"]
    use_zlib,        \* [client -> BOOLEAN]
    sink_task,       \* [client -> "unspawned" | "await_compress" | "drain" | "failed" | "aborted"]
    stream_writer,   \* [client -> Seq(frame)], the unbounded writer queue
    socket,          \* [client -> Seq([msg, binary])], what was written to the client
    shard_id_ch,     \* [client -> Seq(shard)], the shard_id channel
    forward_shard,   \* [client -> "unspawned" | "recv_shard" | "wait_ready" | "suspended" | "woken"
                     \*            | "burst" | "loop" | "ended" | "aborted"]
    fwd_shard,       \* [client -> None | shard], the shard forward_shard serves
    seq,             \* [client -> Nat], the fake sequence number
    event_receiver,  \* [client -> Nat], events of the broadcast already passed
    guild_iter,      \* [client -> Nat], guilds the burst iterator has passed
    lagged,          \* [client -> BOOLEAN], recv returned Lagged once
    mismatch,        \* [client -> BOOLEAN], history: an IDENTIFY with a wrong shard or token came
    burst_len,       \* [client -> Nat], history: frames the guild burst has sent
    mutated,         \* [client -> BOOLEAN], history: the tracker changed during the burst
    ready,           \* [shard -> [set, d]], the write-once cell and the body it holds
    guilds,          \* [shard -> [guild -> "absent" | "available" | "unavailable"]]
    events,          \* [shard -> Seq(payload)], everything sent on the broadcast
    stream,          \* [shard -> Seq(item)], items the shard driver has produced
    dispatch_events, \* [shard -> "run" | "notify" | "panicked"]
    command_sink,    \* [shard -> Seq(text)], frames sent upstream
    upstream_n,      \* [shard -> number of upstream payloads produced so far]
    limit            \* [frames, upstream], the bounds of this run; never changes

clientVars == <<handle_client, frames_in, shard_status, compress_tx, compress_rx,
                use_zlib, sink_task, stream_writer, socket, shard_id_ch,
                forward_shard, fwd_shard, seq, event_receiver, guild_iter,
                lagged, mismatch, burst_len>>
shardVars == <<ready, guilds, events, stream, dispatch_events, upstream_n, limit>>
vars == <<clientVars, mutated, shardVars, command_sink>>

\* ---- frames ----
Frame(op, t, s, d) == [op |-> op, t |-> t, s |-> s, d |-> d]
HELLO == Frame(10, "null", NoSeq, {41250})
HEARTBEAT_ACK == Frame(11, "null", NoSeq, {})
INVALID_SESSION == Frame(9, "null", NoSeq, {0})

Text(m) == [msg |-> m, binary |-> FALSE]
Binary(m) == [msg |-> m, binary |-> TRUE]

\* stream_writer.send(msg): an unbounded channel; the send fails and the
\* message is dropped once the receiver (owned by sink_task) is gone.
Send(c, msg) ==
    IF sink_task[c] \in {"await_compress", "drain"}
    THEN [stream_writer EXCEPT ![c] = Append(@, msg)]
    ELSE stream_writer

\* ---- the bounds of a run ----
\* frames: frames the client sends; upstream: payloads each shard receives;
\* types: their types; zlib: whether a connection may ask for compression
\* (in its query or in its IDENTIFY).
Limit(frames, upstream, types, zlib) ==
    [frames |-> frames,
     upstream |-> [sh \in Shards |-> IF sh = 0 THEN upstream ELSE IdleUpstream],
     types |-> types,
     zlib |-> zlib]
AllTypes == {"null", "READY", "RESUMED", "MESSAGE_CREATE", "GUILD_CREATE",
             "GUILD_DELETE", "GUILD_UPDATE"}
Talkative == Limit(MaxFrames, MinUpstream, AllTypes, TRUE)
Mixed == Limit(MidFrames, LowUpstream, {"READY", "GUILD_CREATE", "MESSAGE_CREATE"}, FALSE)
Busy == Limit(MinFrames, MaxUpstream, {"READY", "GUILD_CREATE", "MESSAGE_CREATE"}, FALSE)
Noisy == Limit(MinFrames, MidUpstream, AllTypes, FALSE)
Limits == {Talkative, Mixed, Busy, Noisy}
\* two connections at once, on a shard that only relays messages
Pair == Limit(PairFrames, PairUpstream, {"READY", "MESSAGE_CREATE"}, FALSE)

\* ---- construction ----
\* InitOf(conn, limits): the clients in conn have been accepted (upgrade done,
\* the query parsed into use_zlib), every shard is freshly constructed.
InitOf(conn, limits) ==
    /\ limit \in limits
    /\ handle_client = [c \in Clients |-> IF c \in conn THEN "hello" ELSE "absent"]
    /\ frames_in = [c \in Clients |-> 0]
    /\ shard_status = [c \in Clients |-> None]
    /\ compress_tx = [c \in Clients |-> TRUE]
    /\ compress_rx = [c \in Clients |-> "pending"]
    /\ use_zlib \in [Clients -> BOOLEAN]
    /\ \A c \in Clients : use_zlib[c] => c \in conn /\ limit.zlib
    /\ sink_task = [c \in Clients |-> "unspawned"]
    /\ stream_writer = [c \in Clients |-> <<>>]
    /\ socket = [c \in Clients |-> <<>>]
    /\ shard_id_ch = [c \in Clients |-> <<>>]
    /\ forward_shard = [c \in Clients |-> "unspawned"]
    /\ fwd_shard = [c \in Clients |-> None]
    /\ seq = [c \in Clients |-> 0]
    /\ event_receiver = [c \in Clients |-> 0]
    /\ guild_iter = [c \in Clients |-> 0]
    /\ lagged = [c \in Clients |-> FALSE]
    /\ mismatch = [c \in Clients |-> FALSE]
    /\ burst_len = [c \in Clients |-> 0]
    /\ mutated = [c \in Clients |-> FALSE]
    /\ ready = [sh \in Shards |-> [set |-> FALSE, d |-> {}]]
    /\ guilds = [sh \in Shards |-> [g \in Guilds |-> "absent"]]
    /\ events = [sh \in Shards |-> <<>>]
    /\ stream = [sh \in Shards |-> <<>>]
    /\ dispatch_events = [sh \in Shards |-> "run"]
    /\ command_sink = [sh \in Shards |-> <<>>]
    /\ upstream_n = [sh \in Shards |-> 0]

InitWith(conn) == InitOf(conn, Limits)
Init == InitWith({"c1"})

\* ---- handle_client: HELLO and the spawning of the two tasks ----
\* ok = FALSE: the send of HELLO fails and `?` returns before any task exists.
SendHello(c, ok) ==
    /\ handle_client[c] = "hello"
    /\ IF ok
       THEN /\ socket' = [socket EXCEPT ![c] =
                  Append(@, IF use_zlib[c] THEN Binary(HELLO) ELSE Text(HELLO))]
            /\ sink_task' = [sink_task EXCEPT ![c] = "await_compress"]
            /\ forward_shard' = [forward_shard EXCEPT ![c] = "recv_shard"]
            /\ handle_client' = [handle_client EXCEPT ![c] = "read"]
       ELSE /\ handle_client' = [handle_client EXCEPT ![c] = "returned"]
            /\ UNCHANGED <<socket, sink_task, forward_shard>>
    /\ UNCHANGED <<frames_in, shard_status, compress_tx, compress_rx, use_zlib,
                   stream_writer, shard_id_ch, fwd_shard, seq, event_receiver,
                   guild_iter, lagged, mismatch, burst_len, mutated, shardVars, command_sink>>

\* ---- handle_client: teardown ----
\* sink_task.abort() and shard_forward_task.abort(): a task that has already
\* finished stays as it finished.
Aborted(task) ==
    IF task \in {"await_compress", "drain", "recv_shard", "wait_ready", "suspended",
                 "woken", "burst", "loop"}
    THEN "aborted" ELSE task

\* Leaving the reader loop: both tasks aborted, handle_client returns and its
\* channels' ends are dropped with it.
Teardown(c) ==
    /\ handle_client' = [handle_client EXCEPT ![c] = "returned"]
    /\ sink_task' = [sink_task EXCEPT ![c] = Aborted(@)]
    /\ forward_shard' = [forward_shard EXCEPT ![c] = Aborted(@)]
    /\ stream_writer' = [stream_writer EXCEPT ![c] = <<>>]
    /\ shard_id_ch' = [shard_id_ch EXCEPT ![c] = <<>>]

\* The reader holds a frame: stream.next() returned Some(Ok(msg)).
Reading(c) ==
    /\ handle_client[c] = "read"
    /\ frames_in[c] < limit.frames
    /\ frames_in' = [frames_in EXCEPT ![c] = @ + 1]

\* stream.next() returns None or Some(Err(_)): EOF, a close, a read error.
RecvEnd(c) ==
    /\ handle_client[c] = "read"
    /\ Teardown(c)
    /\ UNCHANGED <<frames_in, shard_status, compress_tx, compress_rx, use_zlib,
                   socket, fwd_shard, seq, event_receiver, guild_iter, lagged,
                   mismatch, burst_len, mutated, shardVars, command_sink>>

\* GatewayEvent::from_json returns None: the frame is skipped.
RecvMalformed(c) ==
    /\ Reading(c)
    /\ UNCHANGED <<handle_client, shard_status, compress_tx, compress_rx, use_zlib,
                   sink_task, stream_writer, socket, shard_id_ch, forward_shard,
                   fwd_shard, seq, event_receiver, guild_iter, lagged, mismatch, burst_len, mutated, shardVars, command_sink>>

\* op 1
RecvHeartbeat(c) ==
    /\ Reading(c)
    /\ stream_writer' = Send(c, HEARTBEAT_ACK)
    /\ UNCHANGED <<handle_client, shard_status, compress_tx, compress_rx, use_zlib,
                   sink_task, socket, shard_id_ch, forward_shard, fwd_shard, seq,
                   event_receiver, guild_iter, lagged, mismatch, burst_len, mutated,
                   shardVars, command_sink>>

\* op 6
RecvResume(c) ==
    /\ Reading(c)
    /\ stream_writer' = Send(c, INVALID_SESSION)
    /\ UNCHANGED <<handle_client, shard_status, compress_tx, compress_rx, use_zlib,
                   sink_task, socket, shard_id_ch, forward_shard, fwd_shard, seq,
                   event_receiver, guild_iter, lagged, mismatch, burst_len, mutated,
                   shardVars, command_sink>>

IdentifyValidNoToken(shard_id, shard_count, token) ==
    /\ shard_count = ShardCount
    /\ shard_id < shard_count

\* op 2: the three checks on a parsed IDENTIFY, each of which breaks the loop.
IdentifyValid(shard_id, shard_count, token) ==
    /\ shard_count = ShardCount
    /\ shard_id < shard_count
    /\ token = ConfigToken

\* shard_id_tx.send(shard_id): fails once forward_shard has ended and dropped
\* its receiver.
SendShardId(c, shard_id) ==
    IF forward_shard[c] \in {"recv_shard", "wait_ready", "suspended", "woken", "burst", "loop"}
    THEN [shard_id_ch EXCEPT ![c] = Append(@, shard_id)]
    ELSE shard_id_ch

\* op 2. parses = FALSE: simd_json::from_str fails, the frame is skipped.
\* mismatch records what the client sent, whatever the checks make of it.
RecvIdentify(c, parses, shard_id, shard_count, token, compress) ==
    /\ Reading(c)
    /\ compress # "None" => limit.zlib
    /\ mismatch' = [mismatch EXCEPT ![c] =
           @ \/ (parses /\ (shard_count # ShardCount \/ shard_id >= shard_count
                            \/ token # ConfigToken))]
    /\ IF ~parses
       THEN UNCHANGED <<handle_client, shard_status, compress_tx, compress_rx,
                        sink_task, stream_writer, shard_id_ch, forward_shard>>
       ELSE IF ~IdentifyValid(shard_id, shard_count, token)
       THEN /\ Teardown(c)
            /\ UNCHANGED <<shard_status, compress_tx, compress_rx>>
       ELSE /\ shard_status' = [shard_status EXCEPT ![c] = shard_id]
            /\ IF compress_tx[c]
               THEN /\ compress_rx' = [compress_rx EXCEPT ![c] = compress]
                    /\ compress_tx' = [compress_tx EXCEPT ![c] = FALSE]
               ELSE UNCHANGED <<compress_tx, compress_rx>>
            /\ shard_id_ch' = SendShardId(c, shard_id)
            /\ UNCHANGED <<handle_client, sink_task, stream_writer, forward_shard>>
    /\ UNCHANGED <<use_zlib, socket, fwd_shard, seq, event_receiver, guild_iter,
                   lagged, burst_len, mutated, shardVars, command_sink>>

\* The default arm forwards only when shard_status is Some, to that shard.
Bound(c) == shard_status[c] # None
CommandShardZero(c) == 0
CommandShard(c) == shard_status[c]

\* any other op: the payload goes to the bound shard unchanged, or is dropped.
RecvOther(c, op) ==
    /\ Reading(c)
    /\ LET payload == [op |-> op, from |-> c, n |-> frames_in[c]]
       IN IF Bound(c)
          THEN command_sink' = [command_sink EXCEPT ![CommandShard(c)] = Append(@, payload)]
          ELSE UNCHANGED command_sink
    /\ UNCHANGED <<handle_client, shard_status, compress_tx, compress_rx, use_zlib,
                   sink_task, stream_writer, socket, shard_id_ch, forward_shard,
                   fwd_shard, seq, event_receiver, guild_iter, lagged, mismatch, burst_len, mutated, shardVars>>

\* ---- sink_task ----
\* compress_rx.await.contains(&Some(true))
SinkDecide(c) ==
    /\ sink_task[c] = "await_compress"
    /\ compress_rx[c] # "pending"
    /\ use_zlib' = [use_zlib EXCEPT ![c] = @ \/ compress_rx[c] = "true"]
    /\ sink_task' = [sink_task EXCEPT ![c] = "drain"]
    /\ UNCHANGED <<handle_client, frames_in, shard_status, compress_tx, compress_rx,
                   stream_writer, socket, shard_id_ch, forward_shard, fwd_shard, seq,
                   event_receiver, guild_iter, lagged, mismatch, burst_len, mutated,
                   shardVars, command_sink>>

EncodeText(c, msg) == Text(msg)

\* compress_full and Message::Binary when use_zlib, the message itself otherwise
Encode(c, msg) == IF use_zlib[c] THEN Binary(msg) ELSE Text(msg)

\* One turn of the drain loop. ok = FALSE: sink.send fails, `?` ends the task
\* with the error and drops stream_receiver with what it still holds.
SinkSend(c, ok) ==
    /\ sink_task[c] = "drain"
    /\ stream_writer[c] # <<>>
    /\ IF ok
       THEN /\ socket' = [socket EXCEPT ![c] = Append(@, Encode(c, Head(stream_writer[c])))]
            /\ stream_writer' = [stream_writer EXCEPT ![c] = Tail(@)]
            /\ UNCHANGED sink_task
       ELSE /\ sink_task' = [sink_task EXCEPT ![c] = "failed"]
            /\ stream_writer' = [stream_writer EXCEPT ![c] = <<>>]
            /\ UNCHANGED socket
    /\ UNCHANGED <<handle_client, frames_in, shard_status, compress_tx, compress_rx,
                   use_zlib, shard_id_ch, forward_shard, fwd_shard, seq,
                   event_receiver, guild_iter, lagged, mismatch, burst_len, mutated,
                   shardVars, command_sink>>

\* ---- the guild tracker and the stored READY (state of one shard) ----
Tracked(sh) == {g \in Guilds : guilds[sh][g] # "absent"}

\* The synthetic READY: the stored body with every tracked guild listed as
\* unavailable; it carries *seq, and *seq is incremented after.
get_ready_payload(sh, s) == Frame(0, "READY", s, ready[sh].d \cup Tracked(sh))

\* One frame of get_guild_payloads: GUILD_CREATE for an available entry,
\* GUILD_DELETE for an unavailable one; it carries *seq, incremented after.
get_guild_payload(sh, g, s) ==
    Frame(0, IF guilds[sh][g] = "available" THEN "GUILD_CREATE" ELSE "GUILD_DELETE", s, {g})

\* The entries the iterator has not passed yet, in the map's order.
Remaining(c) == {g \in Tracked(fwd_shard[c]) : g > guild_iter[c]}
Min(S) == CHOOSE x \in S : \A y \in S : x <= y

\* ---- the events broadcast ----
LaggingSlowest(c) ==
    \E d \in Clients :
        /\ fwd_shard[d] = fwd_shard[c] /\ forward_shard[d] \in {"burst", "loop"}
        /\ Len(events[fwd_shard[d]]) - event_receiver[d] > Backpressure

\* A receiver that is more than the capacity behind gets Err(Lagged).
Lagging(c) == Len(events[fwd_shard[c]]) - event_receiver[c] > Backpressure

\* Overwrite the sequence number: seq += 1, then the range of "s" is replaced.
NextSeqStuck(s) == s
NextSeq(s) == s + 1
Renumber(payload, s) ==
    IF payload.s = NoSeq THEN payload ELSE [payload EXCEPT !.s = s]

\* ---- forward_shard ----
\* After subscribing the task waits for the shard's READY; after the synthetic
\* READY it sends the guild burst.
AfterSubscribeSkip == "loop"
AfterSubscribe == "wait_ready"
AfterReadySkip == "loop"
AfterReady == "burst"

\* shard_id_rx.recv() yields the shard, then events.subscribe().
FwdSubscribe(c) ==
    /\ forward_shard[c] = "recv_shard"
    /\ shard_id_ch[c] # <<>>
    /\ LET sh == Head(shard_id_ch[c])
       IN /\ fwd_shard' = [fwd_shard EXCEPT ![c] = sh]
          /\ event_receiver' = [event_receiver EXCEPT ![c] = Len(events[sh])]
    /\ shard_id_ch' = [shard_id_ch EXCEPT ![c] = Tail(@)]
    /\ seq' = [seq EXCEPT ![c] = 0]
    /\ forward_shard' = [forward_shard EXCEPT ![c] = AfterSubscribe]
    /\ UNCHANGED <<handle_client, frames_in, shard_status, compress_tx, compress_rx,
                   use_zlib, sink_task, stream_writer, socket, guild_iter, lagged,
                   mismatch, burst_len, mutated, shardVars, command_sink>>

\* wait_until_ready(): the cell is read and, when it is still empty, the task
\* joins the waiters of the shard's notification, in one step of the cell's
\* own synchronization.
FwdWait(c) ==
    /\ forward_shard[c] = "wait_ready"
    /\ ~ready[fwd_shard[c]].set
    /\ forward_shard' = [forward_shard EXCEPT ![c] = "suspended"]
    /\ UNCHANGED <<handle_client, frames_in, shard_status, compress_tx, compress_rx,
                   use_zlib, sink_task, stream_writer, socket, shard_id_ch, fwd_shard,
                   seq, event_receiver, guild_iter, lagged, mismatch, burst_len,
                   mutated, shardVars, command_sink>>

\* wait_until_ready() returns, at once when the cell is full or after the
\* notification; the synthetic READY is sent to the writer.
FwdReady(c) ==
    /\ \/ forward_shard[c] = "wait_ready" /\ ready[fwd_shard[c]].set
       \/ forward_shard[c] = "woken"
    /\ stream_writer' = Send(c, get_ready_payload(fwd_shard[c], seq[c]))
    /\ seq' = [seq EXCEPT ![c] = @ + 1]
    /\ guild_iter' = [guild_iter EXCEPT ![c] = 0]
    /\ forward_shard' = [forward_shard EXCEPT ![c] = AfterReady]
    /\ UNCHANGED <<handle_client, frames_in, shard_status, compress_tx, compress_rx,
                   use_zlib, sink_task, socket, shard_id_ch, fwd_shard,
                   event_receiver, lagged, mismatch, burst_len, mutated, shardVars,
                   command_sink>>

\* One turn of the for loop over get_guild_payloads.
FwdGuild(c) ==
    /\ forward_shard[c] = "burst"
    /\ Remaining(c) # {}
    /\ LET g == Min(Remaining(c))
       IN /\ stream_writer' = Send(c, get_guild_payload(fwd_shard[c], g, seq[c]))
          /\ guild_iter' = [guild_iter EXCEPT ![c] = g]
    /\ seq' = [seq EXCEPT ![c] = @ + 1]
    /\ burst_len' = [burst_len EXCEPT ![c] = @ + 1]
    /\ UNCHANGED <<handle_client, frames_in, shard_status, compress_tx, compress_rx,
                   use_zlib, sink_task, socket, shard_id_ch, forward_shard,
                   fwd_shard, event_receiver, lagged, mismatch, mutated,
                   shardVars, command_sink>>

\* The iterator is exhausted: on to the receive loop.
FwdBurstEnd(c) ==
    /\ forward_shard[c] = "burst"
    /\ Remaining(c) = {}
    /\ forward_shard' = [forward_shard EXCEPT ![c] = "loop"]
    /\ UNCHANGED <<handle_client, frames_in, shard_status, compress_tx, compress_rx,
                   use_zlib, sink_task, stream_writer, socket, shard_id_ch,
                   fwd_shard, seq, event_receiver, guild_iter, lagged, mismatch, burst_len, mutated, shardVars, command_sink>>

\* event_receiver.recv() returns Ok: renumber and send to the writer.
FwdRecv(c) ==
    /\ forward_shard[c] = "loop"
    /\ event_receiver[c] < Len(events[fwd_shard[c]])
    /\ ~Lagging(c)
    /\ LET payload == events[fwd_shard[c]][event_receiver[c] + 1]
           s == IF payload.s = NoSeq THEN seq[c] ELSE NextSeq(seq[c])
       IN /\ seq' = [seq EXCEPT ![c] = s]
          /\ stream_writer' = Send(c, Renumber(payload, s))
    /\ event_receiver' = [event_receiver EXCEPT ![c] = @ + 1]
    /\ UNCHANGED <<handle_client, frames_in, shard_status, compress_tx, compress_rx,
                   use_zlib, sink_task, socket, shard_id_ch, forward_shard,
                   fwd_shard, guild_iter, lagged, mismatch, burst_len, mutated, shardVars,
                   command_sink>>

\* event_receiver.recv() returns Err(Lagged): `while let Ok(..)` does not
\* match, the loop and the task end.
FwdLagged(c) ==
    /\ forward_shard[c] = "loop"
    /\ Lagging(c)
    /\ forward_shard' = [forward_shard EXCEPT ![c] = "ended"]
    /\ lagged' = [lagged EXCEPT ![c] = TRUE]
    /\ UNCHANGED <<handle_client, frames_in, shard_status, compress_tx, compress_rx,
                   use_zlib, sink_task, stream_writer, socket, shard_id_ch,
                   fwd_shard, seq, event_receiver, guild_iter, mismatch, burst_len, mutated,
                   shardVars, command_sink>>

\* ---- the shard driver (the upstream side of the events stream) ----
Item(kind, body, parses, g, unavailable) ==
    [kind |-> kind, body |-> body, parses |-> parses, g |-> g, unavailable |-> unavailable]
Raw(body, parses) == Item("ShardPayload", body, parses, 0, FALSE)
Typed(kind, g, unavailable) == Item(kind, HELLO, TRUE, g, unavailable)

DispatchTypes == {"READY", "RESUMED", "MESSAGE_CREATE", "GUILD_CREATE", "GUILD_DELETE", "GUILD_UPDATE"}
TypedKind(t) ==
    CASE t = "READY" -> "Ready"
      [] t = "GUILD_CREATE" -> "GuildCreate"
      [] t = "GUILD_DELETE" -> "GuildDelete"
      [] t = "GUILD_UPDATE" -> "GuildUpdate"
      [] OTHER -> "None"

\* The driver yields the raw payload (Event::ShardPayload) and, for the event
\* types it parses, the typed event after it. op = 0 is a dispatch of type t
\* numbered by upstream; op = 11 is upstream's own heartbeat ACK.
ShardDriver(sh, op, t, g, unavailable, parses) ==
    /\ upstream_n[sh] < limit.upstream[sh]
    /\ stream[sh] = <<>>
    /\ dispatch_events[sh] = "run"
    /\ t \in limit.types
    /\ op = 11 => t = "null" /\ g = 1 /\ ~unavailable /\ parses
    /\ op = 0 => t \in DispatchTypes
    \* upstream opens every session with READY, and deletes or updates only
    \* guilds it has announced
    /\ op = 0 /\ t # "READY" => ready[sh].set
    /\ t \in {"GUILD_DELETE", "GUILD_UPDATE"} => g \in Tracked(sh)
    /\ t \notin {"GUILD_CREATE", "GUILD_DELETE", "GUILD_UPDATE"} => g = 1
    /\ t \notin {"GUILD_CREATE", "GUILD_DELETE"} => ~unavailable
    /\ t # "READY" => parses
    /\ LET n == upstream_n[sh] + 1
           body == Frame(op, t, IF op = 0 THEN UpstreamBase + n ELSE NoSeq,
                         CASE t = "READY" -> {ReadyBase + n} \cup Guilds
                           [] TypedKind(t) # "None" -> {g}
                           [] OTHER -> {n})
       IN /\ stream' = [stream EXCEPT ![sh] =
                <<Raw(body, parses)>> \o
                (IF TypedKind(t) # "None" /\ parses
                 THEN <<Typed(TypedKind(t), g, unavailable)>> ELSE <<>>)]
          /\ upstream_n' = [upstream_n EXCEPT ![sh] = n]
    /\ UNCHANGED <<clientVars, mutated, ready, guilds, events, dispatch_events, limit,
                   command_sink>>

\* ---- dispatch_events ----
Pop(sh) == stream' = [stream EXCEPT ![sh] = Tail(@)]
NextItem(sh, kind) ==
    /\ dispatch_events[sh] = "run"
    /\ stream[sh] # <<>>
    /\ Head(stream[sh]).kind = kind

ReadySetOverwrite(cell, d) == [set |-> TRUE, d |-> d]

\* ready.set(d): the cell keeps its first value.
ReadySet(cell, d) == IF cell.set THEN cell ELSE [set |-> TRUE, d |-> d]

\* Only dispatches other than RESUMED (and READY, handled before) are relayed.
Relayed(body) == body.op = 0 /\ body.t # "RESUMED"

\* Event::ShardPayload
DispatchShardPayload(sh) ==
    /\ NextItem(sh, "ShardPayload")
    /\ LET item == Head(stream[sh])
           body == item.body
       IN IF body.t = "READY"
          THEN IF item.parses
               THEN \* the cell is written; notify_waiters() is the next step
                    /\ ready' = [ready EXCEPT ![sh] = ReadySet(@, body.d \ Guilds)]
                    /\ dispatch_events' = [dispatch_events EXCEPT ![sh] = "notify"]
                    /\ UNCHANGED <<events, stream>>
               ELSE \* simd_json::from_str(..).unwrap() panics: the task is gone
                    /\ dispatch_events' = [dispatch_events EXCEPT ![sh] = "panicked"]
                    /\ stream' = [stream EXCEPT ![sh] = <<>>]
                    /\ UNCHANGED <<ready, events>>
          ELSE /\ events' = [events EXCEPT ![sh] =
                     IF Relayed(body) THEN Append(@, body) ELSE @]
               /\ Pop(sh)
               /\ UNCHANGED <<ready, dispatch_events>>
    /\ UNCHANGED <<clientVars, mutated, guilds, upstream_n, limit, command_sink>>

\* The tasks suspended in wait_until_ready() of a shard.
WaitersNone(sh) == {}
Waiters(sh) == {c \in Clients : forward_shard[c] = "suspended" /\ fwd_shard[c] = sh}

\* ready_set.notify_waiters(), then `continue`: every task waiting now is woken.
DispatchNotify(sh) ==
    /\ dispatch_events[sh] = "notify"
    /\ forward_shard' = [c \in Clients |->
           IF c \in Waiters(sh) THEN "woken" ELSE forward_shard[c]]
    /\ dispatch_events' = [dispatch_events EXCEPT ![sh] = "run"]
    /\ Pop(sh)
    /\ UNCHANGED <<handle_client, frames_in, shard_status, compress_tx, compress_rx,
                   use_zlib, sink_task, stream_writer, socket, shard_id_ch, fwd_shard,
                   seq, event_receiver, guild_iter, lagged, mismatch, burst_len,
                   mutated, ready, guilds, events, upstream_n, limit, command_sink>>

\* mutated: a burst in progress on this shard has seen the tracker change.
Mutating(sh, after) ==
    mutated' = [c \in Clients |->
        mutated[c] \/ (forward_shard[c] = "burst" /\ fwd_shard[c] = sh /\ after # guilds[sh])]

\* Event::GuildCreate: guilds.insert
DispatchGuildCreate(sh) ==
    /\ NextItem(sh, "GuildCreate")
    /\ LET item == Head(stream[sh])
           after == [guilds[sh] EXCEPT ![item.g] =
                        IF item.unavailable THEN "unavailable" ELSE "available"]
       IN /\ guilds' = [guilds EXCEPT ![sh] = after]
          /\ Mutating(sh, after)
    /\ Pop(sh)
    /\ UNCHANGED <<clientVars, ready, events, dispatch_events, upstream_n, limit,
                   command_sink>>

\* Event::GuildDelete: guilds.remove(guild_delete.id), the id alone
DispatchGuildDelete(sh) ==
    /\ NextItem(sh, "GuildDelete")
    /\ LET after == [guilds[sh] EXCEPT ![Head(stream[sh]).g] = "absent"]
       IN /\ guilds' = [guilds EXCEPT ![sh] = after]
          /\ Mutating(sh, after)
    /\ Pop(sh)
    /\ UNCHANGED <<clientVars, ready, events, dispatch_events, upstream_n, limit,
                   command_sink>>

\* Event::GuildUpdate: guilds.update changes the entry's snapshot, not its
\* availability, and adds no entry
DispatchGuildUpdate(sh) ==
    /\ NextItem(sh, "GuildUpdate")
    /\ Pop(sh)
    /\ UNCHANGED <<clientVars, mutated, ready, guilds, events, dispatch_events, upstream_n,
                   limit, command_sink>>

\* _ => {}
DispatchOther(sh) ==
    /\ NextItem(sh, "Ready")
    /\ Pop(sh)
    /\ UNCHANGED <<clientVars, mutated, ready, guilds, events, dispatch_events, upstream_n,
                   limit, command_sink>>

\* ---- the system ----
Next ==
    \/ \E c \in Clients, ok \in BOOLEAN : SendHello(c, ok)
    \/ \E c \in Clients : RecvEnd(c)
    \/ \E c \in Clients : RecvHeartbeat(c)
    \/ \E c \in Clients, parses \in BOOLEAN, shard_id \in 0 .. ShardCount,
          shard_count \in {ShardCount, ShardCount + 1}, token \in Tokens,
          compress \in OptBool :
          RecvIdentify(c, parses, shard_id, shard_count, token, compress)
    \/ \E c \in Clients : RecvMalformed(c)
    \/ \E c \in Clients : RecvResume(c)
    \/ \E c \in Clients, op \in OtherOps : RecvOther(c, op)
    \/ \E c \in Clients : SinkDecide(c)
    \/ \E c \in Clients, ok \in BOOLEAN : SinkSend(c, ok)
    \/ \E c \in Clients : FwdSubscribe(c)
    \/ \E c \in Clients : FwdWait(c)
    \/ \E c \in Clients : FwdReady(c)
    \/ \E c \in Clients : FwdGuild(c)
    \/ \E c \in Clients : FwdBurstEnd(c)
    \/ \E c \in Clients : FwdRecv(c)
    \/ \E c \in Clients : FwdLagged(c)
    \/ \E sh \in Shards, op \in {0, 11}, t \in DispatchTypes \cup {"null"},
          g \in Guilds, unavailable \in BOOLEAN, parses \in BOOLEAN :
          ShardDriver(sh, op, t, g, unavailable, parses)
    \/ \E sh \in Shards : DispatchShardPayload(sh)
    \/ \E sh \in Shards : DispatchNotify(sh)
    \/ \E sh \in Shards : DispatchGuildCreate(sh)
    \/ \E sh \in Shards : DispatchGuildDelete(sh)
    \/ \E sh \in Shards : DispatchGuildUpdate(sh)
    \/ \E sh \in Shards : DispatchOther(sh)

Spec == Init /\ [][Next]_vars

\* ---- what a client is sent ----
Msgs(c) == [i \in 1 .. Len(socket[c]) |-> socket[c][i].msg]
\* The client's outbound order: what was written, then what is queued.
Outbound(c) == Msgs(c) \o stream_writer[c]
IsDispatch(f) == f.op = 0
Dispatches(q) == SelectSeq(q, IsDispatch)
IsGuildFrame(f) == f.op = 0 /\ f.t \in {"GUILD_CREATE", "GUILD_DELETE"}
SinkAlive(c) == sink_task[c] \in {"await_compress", "drain"}
Range(q) == {q[i] : i \in 1 .. Len(q)}

\* C1: for every client the op=0 frames forward_shard enqueued carry strictly
\* increasing sequence numbers in emission order, and the first of them is the
\* synthetic READY with s = 0.
C1_SeqIncreasing ==
    \A c \in Clients :
        LET D == Dispatches(Outbound(c))
        IN D # <<>> =>
              /\ D[1].t = "READY" /\ D[1].s = 0
              /\ \A i \in 1 .. Len(D) - 1 : D[i].s < D[i + 1].s

\* a READY, a guild frame and two renumbered events are on their way to a client
C1_Witness ==
    \E c \in Clients :
        LET D == Dispatches(Outbound(c))
        IN /\ Len(D) >= 4
           /\ IsGuildFrame(D[2])
           /\ D[3].t = "MESSAGE_CREATE" /\ D[4].t = "MESSAGE_CREATE"

\* C2: the sequence numbers a client receives are contiguous: READY = 0, the
\* burst 1..n, the first broadcast event n + 1, the next n + 2, and so on.
C2_SeqContiguous ==
    \A c \in Clients :
        LET D == Dispatches(Outbound(c))
        IN \A i \in 1 .. Len(D) : D[i].s = i - 1

\* C3 as claimed: the first frame written to an identified client's socket
\* after HELLO is the synthetic READY.
C3_ReadyFirstAfterHello ==
    \A c \in Clients : Len(socket[c]) >= 2 => socket[c][2].msg.t = "READY"

\* C3 as amended: the first frame is HELLO, the first dispatch (op=0) frame
\* written after it is the synthetic READY, and the only frames written
\* before that READY are HEARTBEAT_ACK and INVALID_SESSION.
C3_FirstDispatchIsReady ==
    \A c \in Clients :
        LET W == Msgs(c)
        IN /\ W # <<>> => W[1] = HELLO
           /\ \A i \in 2 .. Len(W) :
                 (\A j \in 2 .. i - 1 : W[j].op # 0) =>
                     \/ W[i] \in {HEARTBEAT_ACK, INVALID_SESSION}
                     \/ W[i].op = 0 /\ W[i].t = "READY"

\* a heartbeat ACK was written between HELLO and the synthetic READY
C3_Witness ==
    \E c \in Clients :
        /\ Len(socket[c]) >= 3
        /\ socket[c][2].msg = HEARTBEAT_ACK
        /\ socket[c][3].msg.t = "READY"

\* The frame at position i of a client's outbound order belongs to the burst.
InBurst(c, f) == IsGuildFrame(f) /\ f.s >= 1 /\ f.s <= burst_len[c]
Index(q, f) == CHOOSE i \in 1 .. Len(q) : q[i] = f

\* C4 as claimed: in the client's outbound order the synthetic READY is
\* immediately followed by one GUILD_CREATE or GUILD_DELETE per guild the READY
\* lists, with no other frame in between and no guild missing or repeated.
C4_BurstImmediatelyFollows ==
    \A c \in Clients :
        forward_shard[c] \in {"loop", "ended"} /\ SinkAlive(c) =>
            LET O == Outbound(c)
                D == Dispatches(O)
                r == Index(O, D[1])
                G == D[1].d \cap Guilds
                n == Cardinality(G)
            IN /\ Len(O) >= r + n
               /\ \A i \in 1 .. n : IsGuildFrame(O[r + i]) /\ O[r + i].s = i
               /\ UNION {O[r + i].d : i \in 1 .. n} = G

\* the two parts of C4 as amended: the outbound order, and one burst step
C4_BurstState ==
    \A c \in Clients :
        LET D == Dispatches(Outbound(c))
            k == burst_len[c]
        IN /\ \A i \in 2 .. Len(D) :
                 IF i <= k + 1
                 THEN IsGuildFrame(D[i]) /\ D[i].s = i - 1
                 ELSE forward_shard[c] # "burst" /\ D[i].s > k + 1
           /\ \A i, j \in 2 .. Len(D) : i < j /\ j <= k + 1 => D[i].d # D[j].d
           /\ forward_shard[c] \in {"loop", "ended"} /\ SinkAlive(c) /\ ~mutated[c] =>
                 /\ Len(D) >= k + 1
                 /\ UNION {D[i].d : i \in 2 .. k + 1} = D[1].d \cap Guilds
C4_BurstStep ==
    \A c \in Clients :
        burst_len'[c] = burst_len[c] + 1 /\ SinkAlive(c) =>
            LET f == stream_writer'[c][Len(stream_writer'[c])]
                g == guild_iter'[c]
            IN /\ stream_writer'[c] = Append(stream_writer[c], f)
               /\ f.d = {g}
               /\ guilds[fwd_shard[c]][g] # "absent"
               /\ f.t = "GUILD_CREATE" <=> guilds[fwd_shard[c]][g] = "available"
               /\ f.t = "GUILD_DELETE" <=> guilds[fwd_shard[c]][g] = "unavailable"
\* C4 as amended: among the dispatch frames of the client's outbound order the
\* burst follows the READY before any broadcast event, numbered 1..k, no guild
\* repeated; each burst frame is a GUILD_CREATE for an entry that is available
\* and a GUILD_DELETE for one that is unavailable when the iterator reads it;
\* when the tracker did not change during the burst, the burst covers exactly
\* the guilds the READY lists. Frames the reader enqueues (HEARTBEAT_ACK,
\* INVALID_SESSION) may lie between the READY and the burst frames.
C4_BurstFollowsReady == []C4_BurstState /\ [][C4_BurstStep]_vars

\* a heartbeat ACK lies between the READY and a frame of a finished burst
C4_Witness ==
    \E c \in Clients :
        /\ forward_shard[c] = "loop" /\ SinkAlive(c) /\ ~mutated[c]
        /\ LET O == Outbound(c)
           IN \E i, j, l \in 1 .. Len(O) :
                 /\ i < j /\ j < l
                 /\ O[i].t = "READY" /\ O[j] = HEARTBEAT_ACK /\ InBurst(c, O[l])

\* the two parts of C5: after the mismatch, and the step that reads it
C5_Closed ==
    \A c \in Clients :
        mismatch[c] =>
            /\ handle_client[c] = "returned"
            /\ sink_task[c] \in {"aborted", "failed"}
            /\ forward_shard[c] \in {"aborted", "ended"}
            /\ shard_status[c] = None =>
                  /\ fwd_shard[c] = None /\ shard_id_ch[c] = <<>>
                  /\ forward_shard[c] = "aborted"
                  /\ Msgs(c) = <<HELLO>>
C5_Step ==
    \A c \in Clients :
        mismatch'[c] /\ ~mismatch[c] =>
            /\ shard_status'[c] = shard_status[c]
            /\ fwd_shard'[c] = fwd_shard[c]
            /\ socket'[c] = socket[c]
\* C5: an IDENTIFY with a shard_count other than the configured one, a
\* shard_id >= shard_count or a token other than the configured one closes the
\* connection: the reader has stopped and the IDENTIFY bound nothing; for a
\* client that was not bound before, shard_status stays None, forward_shard
\* was never given a shard and nothing but HELLO was written to the socket.
C5_MismatchCloses == []C5_Closed /\ [][C5_Step]_vars

\* an unbound client was closed on a mismatching IDENTIFY that followed
\* another frame
C5_Witness ==
    \E c \in Clients : mismatch[c] /\ shard_status[c] = None /\ frames_in[c] >= 2

\* the two parts of C7: what the sinks hold, and the step that adds to one
C7_State ==
    \A sh \in Shards : \A i \in 1 .. Len(command_sink[sh]) :
        LET p == command_sink[sh][i]
        IN p.op \notin {1, 2, 6} /\ shard_status[p.from] # None
C7_Step ==
    \A sh \in Shards :
        command_sink'[sh] # command_sink[sh] =>
            \E c \in Clients, op \in OtherOps :
                /\ handle_client[c] = "read"
                /\ shard_status[c] = sh
                /\ command_sink'[sh] =
                      Append(command_sink[sh], [op |-> op, from |-> c, n |-> frames_in[c]])
                /\ frames_in'[c] = frames_in[c] + 1
\* C7: a frame reaches a shard's command sink only from a client that has
\* completed a valid IDENTIFY, only with an opcode other than 1, 2 and 6,
\* unchanged, and on the shard the client is bound to.
C7_ForwardOnlyBound == []C7_State /\ [][C7_Step]_vars

\* a client bound to shard 1 has had a frame forwarded there
C7_Witness ==
    \E c \in Clients : shard_status[c] = 1 /\ command_sink[1] # <<>>

\* ---- runs of a talkative client, with the tasks scheduled fairly ----
\* The runtime polls every task that can make progress; the client is free to
\* send nothing more, and upstream to stay silent.
TalkativeInit == Init /\ limit = Talkative
TalkativeNext ==
    \/ \E c \in Clients, ok \in BOOLEAN : SendHello(c, ok)
    \/ \E c \in Clients : RecvEnd(c)
    \/ \E c \in Clients : RecvHeartbeat(c)
    \/ \E c \in Clients, parses \in BOOLEAN, shard_id \in 0 .. ShardCount,
          shard_count \in {ShardCount, ShardCount + 1}, token \in Tokens,
          compress \in OptBool :
          RecvIdentify(c, parses, shard_id, shard_count, token, compress)
    \/ \E c \in Clients : RecvMalformed(c)
    \/ \E c \in Clients : RecvResume(c)
    \/ \E c \in Clients, op \in OtherOps : RecvOther(c, op)
    \/ \E c \in Clients : SinkDecide(c)
    \/ \E c \in Clients, ok \in BOOLEAN : SinkSend(c, ok)
    \/ \E c \in Clients : FwdSubscribe(c)
    \/ \E c \in Clients : FwdWait(c)
    \/ \E c \in Clients : FwdReady(c)
    \/ \E c \in Clients : FwdBurstEnd(c)
    \/ \E sh \in Shards, op \in {0, 11}, t \in DispatchTypes \cup {"null"},
          g \in Guilds, unavailable \in BOOLEAN, parses \in BOOLEAN :
          ShardDriver(sh, op, t, g, unavailable, parses)
    \/ \E sh \in Shards : DispatchShardPayload(sh)
    \/ \E sh \in Shards : DispatchNotify(sh)
    \/ \E sh \in Shards : DispatchOther(sh)
TaskFairness ==
    /\ \A c \in Clients :
          /\ WF_vars(SinkDecide(c))
          /\ WF_vars(SinkSend(c, TRUE))
          /\ WF_vars(FwdSubscribe(c))
          /\ WF_vars(FwdWait(c))
          /\ WF_vars(FwdReady(c))
          /\ WF_vars(FwdBurstEnd(c))
    /\ \A sh \in Shards :
          /\ WF_vars(DispatchShardPayload(sh))
          /\ WF_vars(DispatchNotify(sh))
          /\ WF_vars(DispatchOther(sh))
FairSpec == TalkativeInit /\ [][TalkativeNext]_vars /\ TaskFairness

\* a RESUME leaves the binding alone
C6_ResumeStep ==
    \A c \in Clients : RecvResume(c) => shard_status'[c] = shard_status[c]
\* C6: for every RESUME a client sends, in any session state, an
\* INVALID_SESSION is sent to it on its socket (unless the connection ends
\* first), and the RESUME leaves the shard binding as it was.
C6_ResumeAnswered ==
    /\ \A c \in Clients :
          (INVALID_SESSION \in Range(stream_writer[c]))
              ~> \/ INVALID_SESSION \in Range(Msgs(c))
                 \/ handle_client[c] = "returned"
                 \/ sink_task[c] = "failed"
    /\ [][C6_ResumeStep]_vars

\* what a heartbeat step does
C8_HeartbeatStep ==
    \A c \in Clients :
        RecvHeartbeat(c) =>
            /\ stream_writer'[c] = Append(stream_writer[c], HEARTBEAT_ACK)
            /\ shard_status'[c] = shard_status[c]
            /\ seq'[c] = seq[c]
            /\ command_sink' = command_sink
\* C8: every heartbeat enqueues exactly one HEARTBEAT_ACK on the client's
\* writer queue, in any session state, and changes neither the shard binding
\* nor the sequence counter nor anything upstream.
C8_HeartbeatAcked == [][C8_HeartbeatStep]_vars

\* C9: after a client's subscription reported lag the connection stays open
\* and forward_shard is still in its receive loop, delivering what is
\* broadcast from then on.
C9_LagKeepsDelivering ==
    \A c \in Clients :
        lagged[c] /\ handle_client[c] = "read" => forward_shard[c] = "loop"

\* what a step may do once the writer has failed
C10_WriterErrorStep ==
    \A c \in Clients :
        sink_task[c] = "failed" =>
            /\ frames_in'[c] = frames_in[c]
            /\ event_receiver'[c] = event_receiver[c]
            /\ seq'[c] = seq[c]
            /\ \A sh \in Shards : command_sink'[sh] = command_sink[sh]
\* C10: once the writer has ended on a send error, the reader accepts no
\* further frame and forwards nothing upstream, and forward_shard consumes no
\* further broadcast event.
C10_WriterErrorStopsAll == [][C10_WriterErrorStep]_vars

\* the two parts of C12: what a shard holds, and the step that handles a READY
C12_State ==
    \A sh \in Shards :
        /\ ready[sh].d \cap Guilds = {}
        /\ ~ready[sh].set => ready[sh].d = {}
        /\ \A i \in 1 .. Len(events[sh]) : events[sh][i].t # "READY"
C12_Step ==
    \A sh \in Shards :
        /\ ready'[sh] # ready[sh] =>
              /\ ~ready[sh].set /\ ready'[sh].set
              /\ NextItem(sh, "ShardPayload")
              /\ Head(stream[sh]).body.t = "READY"
              /\ ready'[sh].d = Head(stream[sh]).body.d \ Guilds
        /\ stream[sh] # <<>> /\ Head(stream[sh]).body.t = "READY" =>
              events'[sh] = events[sh]
\* C12: for every shard the stored READY is write-once: the first upstream
\* READY stores its body with the guild list cleared, a later upstream READY
\* leaves the stored body as it is, and no upstream READY is ever sent on the
\* events broadcast.
C12_ReadyWriteOnce == []C12_State /\ [][C12_Step]_vars

\* two upstream READYs with different bodies were handled and the first one's
\* body is the one stored
C12_Witness ==
    /\ limit = Mixed
    /\ upstream_n[0] = 2 /\ stream[0] = <<>> /\ dispatch_events[0] = "run"
    /\ events[0] = <<>> /\ Tracked(0) = {}
    /\ ready[0] = [set |-> TRUE, d |-> {ReadyBase + 1}]

\* the two parts of C14: what was written, and what a step does to the mode
C14_State ==
    \A c \in Clients :
        LET W == socket[c]
            zlib == W # <<>> /\ (W[1].binary \/ compress_rx[c] = "true")
        IN /\ \A i \in 2 .. Len(W) : W[i].binary <=> zlib
           /\ sink_task[c] = "drain" => (use_zlib[c] <=> zlib)
C14_Step ==
    \A c \in Clients :
        /\ use_zlib[c] => use_zlib'[c]
        /\ compress_rx[c] # "pending" => compress_rx'[c] = compress_rx[c]
        /\ handle_client[c] = "hello" /\ socket'[c] # socket[c] =>
              socket'[c] = <<IF use_zlib[c] THEN Binary(HELLO) ELSE Text(HELLO)>>
\* C14: HELLO is written as a binary (zlib) frame iff the connection's query
\* asked for zlib-stream; every frame written after the compress decision is
\* binary iff the query asked for it or the first valid IDENTIFY carried
\* compress = true (a later IDENTIFY does not replace the decision); use_zlib
\* never goes from true to false.
C14_CompressMonotonic == []C14_State /\ [][C14_Step]_vars

\* a connection without the query option was switched to zlib by its IDENTIFY:
\* a text HELLO, then a binary frame
C14_Witness ==
    \E c \in Clients :
        /\ Len(socket[c]) >= 2
        /\ ~socket[c][1].binary /\ socket[c][2].binary
        /\ compress_rx[c] = "true"

\* what reading an IDENTIFY whose body does not parse does
C15_Step ==
    \A c \in Clients :
        (\E shard_id \in 0 .. ShardCount, shard_count \in {ShardCount, ShardCount + 1},
            token \in Tokens, compress \in OptBool :
            RecvIdentify(c, FALSE, shard_id, shard_count, token, compress)) =>
            /\ handle_client'[c] = "returned"
            /\ shard_status'[c] = shard_status[c]
\* C15: an IDENTIFY (op 2) whose body fails to parse closes the connection
\* like a shard or token mismatch: the reader stops and the client is not
\* bound by it.
C15_MalformedIdentifyCloses == [][C15_Step]_vars

\* the two parts of C16: the shards of the two directions, and a step
C16_State ==
    \A c \in Clients : fwd_shard[c] # None => shard_status[c] = fwd_shard[c]
C16_Step ==
    \A c \in Clients : shard_status[c] # None => shard_status'[c] = shard_status[c]
\* C16: a client's shard binding is set exactly once: once shard_status is
\* Some, no later IDENTIFY changes it, and at every moment the shard that gets
\* the client's forwarded commands is the shard whose events forward_shard
\* delivers to it.
C16_BindingOnce == []C16_State /\ [][C16_Step]_vars

\* The upstream payload numbered s has been sent on the shard's broadcast.
Published(sh, s) == \E i \in 1 .. Len(events[sh]) : events[sh][i].s = s

\* C17: for every upstream GUILD_CREATE, GUILD_UPDATE or GUILD_DELETE the
\* tracker update is made before the raw payload of the same event is sent on
\* the events broadcast: while the typed event is still waiting in the event
\* stream, its raw payload has not been published.
C17_TrackerBeforeBroadcast ==
    \A sh \in Shards : \A i \in 1 .. Len(stream[sh]) :
        stream[sh][i].kind \in {"GuildCreate", "GuildDelete", "GuildUpdate"} =>
            ~Published(sh, UpstreamBase + upstream_n[sh])

\* The tracker's rules for one typed guild event, applied to a shard's entries.
TrackerRule(entries, item) ==
    CASE item.kind = "GuildCreate" ->
            [entries EXCEPT ![item.g] = IF item.unavailable THEN "unavailable" ELSE "available"]
      [] item.kind = "GuildDelete" ->
            [entries EXCEPT ![item.g] = IF item.unavailable THEN "unavailable" ELSE "absent"]
      [] OTHER -> entries

\* what handling a typed guild event does to the tracker
C18_Step ==
    \A sh \in Shards :
        /\ stream[sh] # <<>>
        /\ Head(stream[sh]).kind \in {"GuildCreate", "GuildDelete", "GuildUpdate"}
        /\ stream'[sh] = Tail(stream[sh])
        => guilds'[sh] = TrackerRule(guilds[sh], Head(stream[sh]))
\* C18: every typed guild event changes the tracker by the rules: GUILD_CREATE
\* inserts or replaces the guild's entry, GUILD_UPDATE leaves an existing
\* entry in place, GUILD_DELETE with unavailable = true keeps the entry and
\* marks it unavailable, GUILD_DELETE with unavailable false or absent
\* removes it.
C18_TrackerRules == [][C18_Step]_vars

\* C19: an upstream READY that fails to parse does not end dispatch_events:
\* the task keeps running (and the shard's later events are still handled)
\* whatever payloads it has been given.
C19_ReadyParseFailureDegrades ==
    \A sh \in Shards : dispatch_events[sh] # "panicked"

\* while the writer waits for the compress decision only HELLO is on the socket
C20_OnlyHello ==
    \A c \in Clients : sink_task[c] = "await_compress" => Msgs(c) = <<HELLO>>
\* C20: until sink_task has read the compress decision the only frame written
\* to the socket is HELLO, and the wait for the decision is bounded: it ends
\* even when the client never sends a valid IDENTIFY, and does not last as
\* long as the connection does.
C20_DecisionBounded ==
    /\ []C20_OnlyHello
    /\ \A c \in Clients :
          (sink_task[c] = "await_compress") ~> (sink_task[c] # "await_compress")

\* forward_shard is inside wait_until_ready()
Waiting(c) == forward_shard[c] \in {"wait_ready", "suspended", "woken"}

\* a task that calls wait_until_ready() on a full cell does not suspend
C13_Step ==
    \A c \in Clients :
        forward_shard[c] = "wait_ready" /\ ready[fwd_shard[c]].set =>
            forward_shard'[c] \in {"wait_ready", AfterReady, "aborted"}
PairInit == InitOf(Clients, {Pair})
PairNext ==
    \/ \E c \in Clients, ok \in BOOLEAN : SendHello(c, ok)
    \/ \E c \in Clients : RecvEnd(c)
    \/ \E c \in Clients : RecvHeartbeat(c)
    \/ \E c \in Clients, parses \in BOOLEAN, shard_id \in 0 .. ShardCount,
          shard_count \in {ShardCount, ShardCount + 1}, token \in Tokens,
          compress \in OptBool :
          RecvIdentify(c, parses, shard_id, shard_count, token, compress)
    \/ \E c \in Clients : RecvMalformed(c)
    \/ \E c \in Clients : RecvResume(c)
    \/ \E c \in Clients, op \in OtherOps : RecvOther(c, op)
    \/ \E c \in Clients : SinkDecide(c)
    \/ \E c \in Clients, ok \in BOOLEAN : SinkSend(c, ok)
    \/ \E c \in Clients : FwdSubscribe(c)
    \/ \E c \in Clients : FwdWait(c)
    \/ \E c \in Clients : FwdReady(c)
    \/ \E c \in Clients : FwdBurstEnd(c)
    \/ \E c \in Clients : FwdRecv(c)
    \/ \E c \in Clients : FwdLagged(c)
    \/ \E sh \in Shards, op \in {0, 11}, t \in DispatchTypes \cup {"null"},
          g \in Guilds, unavailable \in BOOLEAN, parses \in BOOLEAN :
          ShardDriver(sh, op, t, g, unavailable, parses)
    \/ \E sh \in Shards : DispatchShardPayload(sh)
    \/ \E sh \in Shards : DispatchNotify(sh)
    \/ \E sh \in Shards : DispatchOther(sh)
PairSpec == PairInit /\ [][PairNext]_vars

\* everything that belongs to one client's pipeline
ClientView(c) ==
    <<handle_client[c], frames_in[c], shard_status[c], compress_tx[c], compress_rx[c],
      use_zlib[c], sink_task[c], stream_writer[c], socket[c], shard_id_ch[c],
      forward_shard[c], fwd_shard[c], seq[c], event_receiver[c], guild_iter[c],
      lagged[c]>>
\* a step of one of client d's three tasks
ClientStep(d) ==
    \/ \E ok \in BOOLEAN : SendHello(d, ok) \/ SinkSend(d, ok)
    \/ RecvEnd(d) \/ RecvHeartbeat(d) \/ RecvMalformed(d) \/ RecvResume(d)
    \/ \E parses \in BOOLEAN, shard_id \in 0 .. ShardCount,
          shard_count \in {ShardCount, ShardCount + 1}, token \in Tokens,
          compress \in OptBool :
          RecvIdentify(d, parses, shard_id, shard_count, token, compress)
    \/ \E op \in OtherOps : RecvOther(d, op)
    \/ SinkDecide(d) \/ FwdSubscribe(d) \/ FwdWait(d) \/ FwdReady(d)
    \/ FwdBurstEnd(d) \/ FwdRecv(d) \/ FwdLagged(d)

\* the parts of C11: no step of one client touches another client or the
\* ingest side; what enables a publish and a delivery
C11_Step ==
    \A c, d \in Clients :
        c # d /\ ClientStep(d) =>
            /\ ClientView(c)' = ClientView(c)
            /\ UNCHANGED <<ready, guilds, events, stream, dispatch_events, upstream_n>>
C11_PublishNeverBlocked ==
    \A sh \in Shards :
        dispatch_events[sh] = "run" /\ stream[sh] # <<>>
            /\ Head(stream[sh]).kind = "ShardPayload"
        => ENABLED DispatchShardPayload(sh)
C11_DeliveryOwnPosition ==
    \A c \in Clients :
        /\ forward_shard[c] = "loop"
        /\ event_receiver[c] < Len(events[fwd_shard[c]])
        /\ Len(events[fwd_shard[c]]) - event_receiver[c] <= Backpressure
        => ENABLED FwdRecv(c)
\* C11: no error or slowness in one client's pipeline affects another client
\* or the upstream side: a step of one client's tasks changes nothing of
\* another client's pipeline and nothing of the shard's ingest state; the
\* publish step of dispatch_events is enabled whatever the clients' states;
\* and a client is delivered the next event whenever it is itself within the
\* capacity of the broadcast, however far behind the other client is.
C11_ClientsIsolated ==
    /\ [](C11_PublishNeverBlocked /\ C11_DeliveryOwnPosition)
    /\ [][C11_Step]_vars

\* two clients share shard 0; one fell behind and lagged while the other has
\* been sent every event of the broadcast
C11_Witness ==
    \E c, d \in Clients :
        /\ c # d /\ fwd_shard[c] = 0
        /\ lagged[d] /\ fwd_shard[d] = 0
        /\ Len(events[0]) = 2 /\ event_receiver[c] = 2
        /\ Len(SelectSeq(Outbound(c), LAMBDA f : f.t = "MESSAGE_CREATE")) = 2

\* The frames on their way to client c that tell it about guild g: the
\* synthetic READY listing it, a frame of the burst, or the relayed event.
Told(c, g) ==
    \E f \in Range(Outbound(c)) :
        f.op = 0 /\ f.t \in {"READY", "GUILD_CREATE", "GUILD_DELETE"} /\ g \in f.d

\* C21: no guild event is lost to a client between the broadcast and the
\* synthetic burst: for a client whose forward_shard has reached its receive
\* loop, every GUILD_CREATE published on its shard's broadcast (the latest
\* event of that guild) is either still to be received from the broadcast or
\* already on its way to the client, as the relayed event or as part of the
\* READY and guild burst synthesized for it.
C21_NoGuildEventLost ==
    \A c \in Clients :
        forward_shard[c] = "loop" /\ SinkAlive(c) =>
            LET E == events[fwd_shard[c]]
            IN \A i \in 1 .. Len(E) :
                  /\ E[i].t = "GUILD_CREATE"
                  /\ \A j \in i + 1 .. Len(E) : E[j].d # E[i].d
                  => \/ i > event_receiver[c]
                     \/ \E g \in E[i].d : Told(c, g)

====
